---- MODULE Spec2Model ----
(***************************************************************************)
(* A model of the two Sephora scraping scripts.                            *)
(*                                                                         *)
(*   sephora_scr.py  (the Link Collector): for every category, pages of    *)
(*       the listing are loaded, scrolled until the block count is stable, *)
(*       and the product links of the blocks are appended to final_df.     *)
(*   product_scr.py  (the Detail Extractor): every URL of the input is     *)
(*       visited, parsed, and recorded as a product or as skipped.         *)
(*                                                                         *)
(* The browser (Selenium) is the environment: what a call returns, and     *)
(* whether it raises, is a nondeterministic choice.  One run executes one  *)
(* of the two scripts; `script` says which.                                *)
(***************************************************************************)
EXTENDS Integers, Sequences, FiniteSets, TLC

VARIABLES
    script,          \* "LC" (sephora_scr.py) or "DE" (product_scr.py)
    driver,          \* the browser session: "none", "open", "quit"
    \* ---- sephora_scr.py
    lc_pc,           \* position of the Link Collector
    cat,             \* index in categories of the category being scraped
    page,            \* `page` of scrape_all_paginated_products
    previous_count,
    scroll_attempts,
    current_count,   \* len(product_blocks) of the last find_elements
    blk,             \* index in product_blocks of the next block to extract
    all_hrefs,
    final_df,        \* rows [category, URL], in index order
    urls_csv,        \* what to_csv has written: <<>> or <<final_df>>
    requests,        \* the listing pages driver.get was called on, in order
    last_read,       \* history: the count find_elements returned last on this page
    equal_run,       \* history: how many reads in a row returned the count of the read
                     \* before (not counted beyond StableReads + 1)
    dup_skipped,     \* history: an anchor was passed over because its href was in all_hrefs
    \* ---- product_scr.py
    de_pc,           \* position of the Detail Extractor
    data,            \* the input rows (after dropna), zip(urls, categories)
    item,            \* index in data of the row being processed (0: none yet)
    soup,            \* the parsed page of the current row
    products,
    skipped_urls,
    error_log,       \* the URLs printed by "Error scraping ..."
    visited,         \* the rows driver.get was called on, in order
    prod_rows,       \* for each entry of products, the row it was made from
    skip_rows,       \* for each entry of skipped_urls, the row it was made from
    err_rows,        \* for each entry of error_log, the row it was made from
    propagating,     \* the exception propagating out of the for loop, or "none"
    data_csv,        \* what to_csv has written to product_data.csv
    skipped_csv      \* what to_csv has written to product_skipped.csv

lc_vars == <<lc_pc, cat, page, previous_count, scroll_attempts, current_count,
             blk, all_hrefs, final_df, urls_csv, requests,
             last_read, equal_run, dup_skipped>>
lc_hist == <<last_read, equal_run, dup_skipped>>
de_vars == <<de_pc, data, item, soup, products, skipped_urls, error_log,
             visited, prod_rows, skip_rows, err_rows, propagating,
             data_csv, skipped_csv>>
vars == <<script, driver, lc_vars, de_vars>>

-----------------------------------------------------------------------------
(* Bounds of the model *)

\* the page cap of scrape_all_paginated_products (its default is 50)
max_pages == 3
\* the most blocks find_elements returns on a listing page
MaxBlocks == 2
\* the most product anchors in one block
MaxAnchors == 2
\* the most rows of data/product_urls.csv
MaxItems == 2

(* Program constants *)

\* `while scroll_attempts < 7`
StableReads == 7
\* `previous_count = -1`
NoCount == -1

\* a prefix of the category list of sephora_scr.py
categories == <<"cleanser", "facial-treatments">>
\* the product links a page can hold
URLS == {"/product/p1", "/product/p2"}
\* get_attribute("href") of an anchor: a link, or nothing ("" stands for None
\* and for the empty string: both are falsy)
NoHref == ""
Hrefs == URLS \cup {NoHref}

\* sequences over S of length at most n
SeqUpTo(S, n) == UNION {[1..k -> S] : k \in 0..n}

\* Python's None, and a present value v
None == <<>>
Some(v) == <<v>>

-----------------------------------------------------------------------------
(* sephora_scr.py *)

\* final_df.loc[len(final_df)] = {"category": category, "URL": href}
AppendRow(df, category, href) == Append(df, [category |-> category, URL |-> href])

\* IsNewHref without the test against all_hrefs
IsNewHref_NoSeenTest(href, seen) == href # NoHref

\* `if href and href not in all_hrefs`
IsNewHref(href, seen) == href # NoHref /\ href \notin seen

\* the body of `for anchor in anchors` for one anchor: st is
\* <<all_hrefs, final_df, dup_skipped>>
AnchorStep(st, category, href) ==
    IF IsNewHref(href, st[1])
    THEN <<st[1] \cup {href}, AppendRow(st[2], category, href), st[3]>>
    ELSE <<st[1], st[2], st[3] \/ href \in st[1]>>

\* `for anchor in anchors` over the first k anchors of a block
RECURSIVE ExtractAnchors(_, _, _, _)
ExtractAnchors(st, category, anchors, k) ==
    IF k = 0 THEN st
    ELSE AnchorStep(ExtractAnchors(st, category, anchors, k - 1), category, anchors[k])

\* CountAttempt with the comparison inverted
CountAttempt_Inverted(attempts, current, previous) ==
    IF current # previous THEN attempts + 1 ELSE 0

\* the if/else of the while loop: the new scroll_attempts
CountAttempt(attempts, current, previous) ==
    IF current = previous THEN attempts + 1 ELSE 0

\* KeepScrolling with <= for <
KeepScrolling_OneMore(attempts) == attempts <= StableReads

\* the while condition
KeepScrolling(attempts) == attempts < StableReads

\* StopPagination without the break
StopPagination_Never(count) == FALSE

\* the break of the page loop
StopPagination(count) == count = 0

\* range(1, max_pages + 1) still has the page
InRange(p) == p <= max_pages

LCCrash ==
    /\ lc_pc' = "crashed"
    /\ UNCHANGED <<script, driver, cat, page, previous_count, scroll_attempts,
                   current_count, blk, all_hrefs, final_df, urls_csv, requests>>
    /\ UNCHANGED lc_hist

\* driver = webdriver.Chrome(service=service, options=options)
LCAcquire ==
    /\ script = "LC" /\ lc_pc = "start"
    /\ driver' = "open"
    /\ lc_pc' = "for_category"
    /\ UNCHANGED <<script, cat, page, previous_count, scroll_attempts,
                   current_count, blk, all_hrefs, final_df, urls_csv, requests>>
    /\ UNCHANGED lc_hist
    /\ UNCHANGED de_vars

\* webdriver.Chrome raises: the script ends before anything else happens
LCAcquireFails ==
    /\ script = "LC" /\ lc_pc = "start"
    /\ LCCrash
    /\ UNCHANGED de_vars

\* `for category in categories:` enters scrape_all_paginated_products
LCNextCategory ==
    /\ script = "LC" /\ lc_pc = "for_category"
    /\ cat < Len(categories)
    /\ cat' = cat + 1
    /\ all_hrefs' = {}
    /\ page' = 1
    /\ lc_pc' = "for_page"
    /\ UNCHANGED <<script, driver, previous_count, scroll_attempts, current_count,
                   blk, final_df, urls_csv, requests>>
    /\ UNCHANGED lc_hist
    /\ UNCHANGED de_vars

\* LCCategoriesDone with the loop left as soon as one category is done
LCCategoriesDone_AfterFirst ==
    /\ script = "LC" /\ lc_pc = "for_category"
    /\ cat >= 1
    /\ lc_pc' = "quit"
    /\ UNCHANGED <<script, driver, cat, page, previous_count, scroll_attempts,
                   current_count, blk, all_hrefs, final_df, urls_csv, requests>>
    /\ UNCHANGED lc_hist
    /\ UNCHANGED de_vars

\* the category loop is over
LCCategoriesDone ==
    /\ script = "LC" /\ lc_pc = "for_category"
    /\ cat = Len(categories)
    /\ lc_pc' = "quit"
    /\ UNCHANGED <<script, driver, cat, page, previous_count, scroll_attempts,
                   current_count, blk, all_hrefs, final_df, urls_csv, requests>>
    /\ UNCHANGED lc_hist
    /\ UNCHANGED de_vars

\* `for page in range(1, max_pages + 1):` driver.get(url) and the first scroll
LCLoadPage ==
    /\ script = "LC" /\ lc_pc = "for_page"
    /\ InRange(page)
    /\ requests' = Append(requests, <<cat, page>>)
    /\ previous_count' = NoCount
    /\ scroll_attempts' = 0
    /\ last_read' = NoCount
    /\ equal_run' = 0
    /\ lc_pc' = "while"
    /\ UNCHANGED <<script, driver, cat, page, current_count, blk, all_hrefs,
                   final_df, urls_csv, dup_skipped>>
    /\ UNCHANGED de_vars

\* driver.get(url) raises
LCLoadPageRaises ==
    /\ script = "LC" /\ lc_pc = "for_page"
    /\ InRange(page)
    /\ lc_pc' = "crashed"
    /\ requests' = Append(requests, <<cat, page>>)
    /\ UNCHANGED <<script, driver, cat, page, previous_count, scroll_attempts,
                   current_count, blk, all_hrefs, final_df, urls_csv>>
    /\ UNCHANGED lc_hist
    /\ UNCHANGED de_vars

\* the page loop ran out of pages: return final_df
LCPagesExhausted ==
    /\ script = "LC" /\ lc_pc = "for_page"
    /\ ~InRange(page)
    /\ lc_pc' = "for_category"
    /\ UNCHANGED <<script, driver, cat, page, previous_count, scroll_attempts,
                   current_count, blk, all_hrefs, final_df, urls_csv, requests>>
    /\ UNCHANGED lc_hist
    /\ UNCHANGED de_vars

\* the while test holds: product_blocks = find_elements(...), current_count = len
LCReadBlocks ==
    /\ script = "LC" /\ lc_pc = "while"
    /\ KeepScrolling(scroll_attempts)
    /\ \E n \in 0..MaxBlocks :
         /\ current_count' = n
         /\ equal_run' = (IF n # last_read THEN 0
                          ELSE IF equal_run <= StableReads THEN equal_run + 1
                          ELSE equal_run)
         /\ last_read' = n
    /\ lc_pc' = "compare"
    /\ UNCHANGED <<script, driver, cat, page, previous_count, scroll_attempts,
                   blk, all_hrefs, final_df, urls_csv, requests, dup_skipped>>
    /\ UNCHANGED de_vars

\* find_elements raises
LCReadBlocksRaises ==
    /\ script = "LC" /\ lc_pc = "while"
    /\ KeepScrolling(scroll_attempts)
    /\ LCCrash
    /\ UNCHANGED de_vars

\* the rest of the loop body: count the attempt, remember the count, scroll
LCCompare ==
    /\ script = "LC" /\ lc_pc = "compare"
    /\ scroll_attempts' = CountAttempt(scroll_attempts, current_count, previous_count)
    /\ previous_count' = current_count
    /\ lc_pc' = "while"
    /\ UNCHANGED <<script, driver, cat, page, current_count, blk, all_hrefs,
                   final_df, urls_csv, requests>>
    /\ UNCHANGED lc_hist
    /\ UNCHANGED de_vars

\* execute_script("window.scrollBy(0, 300);") raises
LCCompareRaises ==
    /\ script = "LC" /\ lc_pc = "compare"
    /\ LCCrash
    /\ UNCHANGED de_vars

\* the while test fails; `if current_count == 0: break`, else the block loop starts
LCScrollDone ==
    /\ script = "LC" /\ lc_pc = "while"
    /\ ~KeepScrolling(scroll_attempts)
    /\ IF StopPagination(current_count)
       THEN lc_pc' = "for_category" /\ blk' = blk
       ELSE lc_pc' = "for_block" /\ blk' = 1
    /\ UNCHANGED <<script, driver, cat, page, previous_count, scroll_attempts,
                   current_count, all_hrefs, final_df, urls_csv, requests>>
    /\ UNCHANGED lc_hist
    /\ UNCHANGED de_vars

\* `for block in product_blocks:` one block, its anchors looked up in the page now
LCExtractBlock ==
    /\ script = "LC" /\ lc_pc = "for_block"
    /\ blk <= current_count
    /\ \E anchors \in SeqUpTo(Hrefs, MaxAnchors) :
         LET st == ExtractAnchors(<<all_hrefs, final_df, dup_skipped>>,
                                  categories[cat], anchors, Len(anchors))
         IN  all_hrefs' = st[1] /\ final_df' = st[2] /\ dup_skipped' = st[3]
    /\ blk' = blk + 1
    /\ UNCHANGED <<script, driver, lc_pc, cat, page, previous_count, scroll_attempts,
                   current_count, urls_csv, requests, last_read, equal_run>>
    /\ UNCHANGED de_vars

\* block.find_elements or anchor.get_attribute raises (a stale element, say),
\* after k anchors of the block were handled
LCExtractBlockRaises ==
    /\ script = "LC" /\ lc_pc = "for_block"
    /\ blk <= current_count
    /\ \E anchors \in SeqUpTo(Hrefs, MaxAnchors) : \E k \in 0..Len(anchors) :
         LET st == ExtractAnchors(<<all_hrefs, final_df, dup_skipped>>,
                                  categories[cat], anchors, k)
         IN  all_hrefs' = st[1] /\ final_df' = st[2] /\ dup_skipped' = st[3]
    /\ lc_pc' = "crashed"
    /\ UNCHANGED <<script, driver, cat, page, previous_count, scroll_attempts,
                   current_count, blk, urls_csv, requests, last_read, equal_run>>
    /\ UNCHANGED de_vars

\* the block loop is over: the next page
LCBlocksDone ==
    /\ script = "LC" /\ lc_pc = "for_block"
    /\ blk > current_count
    /\ page' = page + 1
    /\ lc_pc' = "for_page"
    /\ UNCHANGED <<script, driver, cat, previous_count, scroll_attempts,
                   current_count, blk, all_hrefs, final_df, urls_csv, requests>>
    /\ UNCHANGED lc_hist
    /\ UNCHANGED de_vars

\* driver.quit()
LCQuit ==
    /\ script = "LC" /\ lc_pc = "quit"
    /\ driver' = "quit"
    /\ lc_pc' = "to_csv"
    /\ UNCHANGED <<script, cat, page, previous_count, scroll_attempts,
                   current_count, blk, all_hrefs, final_df, urls_csv, requests>>
    /\ UNCHANGED lc_hist
    /\ UNCHANGED de_vars

\* final_df.to_csv('./data/product_urls_full.csv', index = False)
LCWrite ==
    /\ script = "LC" /\ lc_pc = "to_csv"
    /\ urls_csv' = Append(urls_csv, final_df)
    /\ lc_pc' = "done"
    /\ UNCHANGED <<script, driver, cat, page, previous_count, scroll_attempts,
                   current_count, blk, all_hrefs, final_df, requests>>
    /\ UNCHANGED lc_hist
    /\ UNCHANGED de_vars

\* to_csv raises (no ./data directory, say)
LCWriteRaises ==
    /\ script = "LC" /\ lc_pc = "to_csv"
    /\ LCCrash
    /\ UNCHANGED de_vars

NextLC ==
    \/ LCAcquire \/ LCAcquireFails
    \/ LCNextCategory \/ LCCategoriesDone
    \/ LCLoadPage \/ LCLoadPageRaises \/ LCPagesExhausted
    \/ LCReadBlocks \/ LCReadBlocksRaises \/ LCCompare \/ LCCompareRaises
    \/ LCScrollDone
    \/ LCExtractBlock \/ LCExtractBlockRaises \/ LCBlocksDone
    \/ LCQuit \/ LCWrite \/ LCWriteRaises

InitLC ==
    /\ lc_pc = "start"
    /\ cat = 0
    /\ page = 0
    /\ previous_count = NoCount
    /\ scroll_attempts = 0
    /\ current_count = 0
    /\ blk = 0
    /\ all_hrefs = {}
    /\ final_df = <<>>
    /\ urls_csv = <<>>
    /\ requests = <<>>
    /\ last_read = NoCount
    /\ equal_run = 0
    /\ dup_skipped = FALSE

-----------------------------------------------------------------------------
(* product_scr.py *)

\* Text is a sequence of characters, so that strip() can be computed.
Blank == " "

\* str.strip(): leading and trailing blanks removed
RECURSIVE LStrip(_)
LStrip(t) == IF t # <<>> /\ Head(t) = Blank THEN LStrip(Tail(t)) ELSE t
RECURSIVE RStrip(_)
RStrip(t) ==
    IF t # <<>> /\ t[Len(t)] = Blank THEN RStrip(SubSeq(t, 1, Len(t) - 1)) ELSE t
Strip(t) == RStrip(LStrip(t))

\* " ".join(texts)
RECURSIVE Join(_)
Join(texts) ==
    IF Len(texts) = 0 THEN <<>>
    ELSE IF Len(texts) = 1 THEN texts[1]
    ELSE texts[1] \o <<Blank>> \o Join(Tail(texts))

\* [x for x in s if x], for texts
RECURSIVE NonEmpty(_)
NonEmpty(s) ==
    IF s = <<>> THEN <<>>
    ELSE IF Head(s) # <<>> THEN <<Head(s)>> \o NonEmpty(Tail(s))
    ELSE NonEmpty(Tail(s))

\* [f(s[i]) for i]
StripAll(s) == [i \in 1..Len(s) |-> Strip(s[i])]

\* the text of span[data-at=product_name] and of a[data-at=brand_name]
NameTexts == {<<" ">>, <<" ", "N", " ">>}
BrandTexts == {<<"B", " ">>}
\* the nested divs of div#ingredients, each with its text: none, a blank one, one
\* with text, and text around a blank one
IngredientDivs == {<<>>, << <<" ">> >>, << <<" ", "a">> >>,
                   << <<" ", "a">>, <<" ">>, <<"b", " ">> >>}

\* what BeautifulSoup(driver.page_source) can hold: whether a text node contains
\* "Sorry, this product is not available", and the three elements (None: not found)
Pages ==
    [marker : BOOLEAN,
     name_tag : {None} \cup {Some(t) : t \in NameTexts},
     brand_tag : {None} \cup {Some(t) : t \in BrandTexts},
     ingredient_div : {None} \cup {Some(d) : d \in IngredientDivs}]

\* the rows of data/product_urls.csv that dropna keeps
Rows == [category : {categories[1]}, URL : URLS]

\* Unavailable with the marker looked for only when no product name was found
Unavailable_AfterName(pg) == pg.marker /\ pg.name_tag = None

\* soup.find(string=lambda text: text and "Sorry, this product is not available" in text)
Unavailable(pg) == pg.marker

\* TagText with a test of the stripped text in place of the test of the tag
TagText_BlankIsNone(tag) ==
    IF tag # None /\ Strip(tag[1]) # <<>> THEN Some(Strip(tag[1])) ELSE None

\* name_tag.text.strip() if name_tag else None  (and the same for the brand)
TagText(tag) == IF tag # None THEN Some(Strip(tag[1])) ELSE None

\* the ingredients of the page: the non-empty texts of the nested divs, joined
Ingredients(ingredient_div) ==
    IF ingredient_div # None
    THEN LET texts == NonEmpty(StripAll(ingredient_div[1]))
         IN  IF texts # <<>> THEN Some(Join(texts)) ELSE None
    ELSE None

\* the dict appended to products
ProductRecord(row, pg) ==
    [Category |-> row.category,
     URL |-> row.URL,
     Brand |-> TagText(pg.brand_tag),
     ProductName |-> TagText(pg.name_tag),
     Ingredients |-> Ingredients(pg.ingredient_div)]

\* the dict appended to skipped_urls
SkippedRecord(row) == [Category |-> row.category, URL |-> row.URL]

\* the exception classes the calls of the loop body raise; the first two derive
\* from Exception, KeyboardInterrupt derives from BaseException only
ExceptionClasses == {"WebDriverException", "TimeoutException"}
Interrupts == {"KeyboardInterrupt"}

\* what the call at a position of the loop body raises when it fails
Raised(pc) == IF pc = "wait" THEN "TimeoutException" ELSE "WebDriverException"

\* the calls of the loop body that are not inside the inner try
RaisingCalls == {"get", "wait", "parse"}

\* ExceptClause for `except TimeoutException:`
ExceptClause_TimeoutOnly(exc) == exc = "TimeoutException"

\* the per-item `except Exception:` matches the exception
ExceptClause(exc) == exc \in ExceptionClasses

\* the statements of the loop body, where a KeyboardInterrupt can arrive
InLoopBody == {"get", "wait", "scroll", "parse", "check", "extract", "except"}

\* driver = init_driver()
DEAcquire ==
    /\ script = "DE" /\ de_pc = "start"
    /\ driver' = "open"
    /\ de_pc' = "for_url"
    /\ UNCHANGED <<script, data, item, soup, products, skipped_urls, error_log,
                   visited, prod_rows, skip_rows, err_rows, propagating,
                   data_csv, skipped_csv>>
    /\ UNCHANGED lc_vars

\* init_driver() raises, before the try block is entered
DEAcquireFails ==
    /\ script = "DE" /\ de_pc = "start"
    /\ de_pc' = "crashed"
    /\ UNCHANGED <<script, driver, data, item, soup, products, skipped_urls,
                   error_log, visited, prod_rows, skip_rows, err_rows, propagating,
                   data_csv, skipped_csv>>
    /\ UNCHANGED lc_vars

\* `for url, category in tqdm(zip(urls, categories), ...)`: the next row
DENextUrl ==
    /\ script = "DE" /\ de_pc = "for_url"
    /\ item < Len(data)
    /\ item' = item + 1
    /\ de_pc' = "get"
    /\ UNCHANGED <<script, driver, data, soup, products, skipped_urls, error_log,
                   visited, prod_rows, skip_rows, err_rows, propagating,
                   data_csv, skipped_csv>>
    /\ UNCHANGED lc_vars

\* the for loop is over: the finally block is entered with nothing propagating
DEUrlsDone ==
    /\ script = "DE" /\ de_pc = "for_url"
    /\ item = Len(data)
    /\ de_pc' = "finally"
    /\ UNCHANGED <<script, driver, data, item, soup, products, skipped_urls,
                   error_log, visited, prod_rows, skip_rows, err_rows, propagating,
                   data_csv, skipped_csv>>
    /\ UNCHANGED lc_vars

\* driver.get(url)
DEGet ==
    /\ script = "DE" /\ de_pc = "get"
    /\ visited' = Append(visited, item)
    /\ de_pc' = "wait"
    /\ UNCHANGED <<script, driver, data, item, soup, products, skipped_urls,
                   error_log, prod_rows, skip_rows, err_rows, propagating,
                   data_csv, skipped_csv>>
    /\ UNCHANGED lc_vars

\* WebDriverWait(driver, 15).until(presence of body)
DEWait ==
    /\ script = "DE" /\ de_pc = "wait"
    /\ de_pc' = "scroll"
    /\ UNCHANGED <<script, driver, data, item, soup, products, skipped_urls,
                   error_log, visited, prod_rows, skip_rows, err_rows, propagating,
                   data_csv, skipped_csv>>
    /\ UNCHANGED lc_vars

\* the inner try: find the ingredients section and scroll to it
DEScroll ==
    /\ script = "DE" /\ de_pc = "scroll"
    /\ de_pc' = "parse"
    /\ UNCHANGED <<script, driver, data, item, soup, products, skipped_urls,
                   error_log, visited, prod_rows, skip_rows, err_rows, propagating,
                   data_csv, skipped_csv>>
    /\ UNCHANGED lc_vars

\* the inner try raises: `except Exception: pass`
DEScrollTolerated ==
    /\ script = "DE" /\ de_pc = "scroll"
    /\ de_pc' = "parse"
    /\ UNCHANGED <<script, driver, data, item, soup, products, skipped_urls,
                   error_log, visited, prod_rows, skip_rows, err_rows, propagating,
                   data_csv, skipped_csv>>
    /\ UNCHANGED lc_vars

\* soup = BeautifulSoup(driver.page_source, "html.parser")
DEParse ==
    /\ script = "DE" /\ de_pc = "parse"
    /\ \E pg \in Pages : soup' = Some(pg)
    /\ de_pc' = "check"
    /\ UNCHANGED <<script, driver, data, item, products, skipped_urls, error_log,
                   visited, prod_rows, skip_rows, err_rows, propagating,
                   data_csv, skipped_csv>>
    /\ UNCHANGED lc_vars

\* driver.get, the wait or page_source raises: control goes to the per-item
\* except clause if it matches, and out of the for loop otherwise
DERaise ==
    /\ script = "DE" /\ de_pc \in RaisingCalls
    /\ visited' = IF de_pc = "get" THEN Append(visited, item) ELSE visited
    /\ IF ExceptClause(Raised(de_pc))
       THEN de_pc' = "except" /\ propagating' = propagating
       ELSE de_pc' = "finally" /\ propagating' = Raised(de_pc)
    /\ UNCHANGED <<script, driver, data, item, soup, products, skipped_urls,
                   error_log, prod_rows, skip_rows, err_rows,
                   data_csv, skipped_csv>>
    /\ UNCHANGED lc_vars

\* DESkip without the continue
DESkip_NoContinue ==
    /\ script = "DE" /\ de_pc = "check"
    /\ soup[1].marker
    /\ skipped_urls' = Append(skipped_urls, [Category |-> data[item].category,
                                             URL |-> data[item].URL])
    /\ skip_rows' = Append(skip_rows, item)
    /\ de_pc' = "extract"
    /\ UNCHANGED <<script, driver, data, item, soup, products, error_log, visited,
                   prod_rows, err_rows, propagating, data_csv, skipped_csv>>
    /\ UNCHANGED lc_vars

\* the unavailability test holds: skipped_urls.append(...); continue
DESkip ==
    /\ script = "DE" /\ de_pc = "check"
    /\ Unavailable(soup[1])
    /\ skipped_urls' = Append(skipped_urls, SkippedRecord(data[item]))
    /\ skip_rows' = Append(skip_rows, item)
    /\ de_pc' = "for_url"
    /\ UNCHANGED <<script, driver, data, item, soup, products, error_log, visited,
                   prod_rows, err_rows, propagating, data_csv, skipped_csv>>
    /\ UNCHANGED lc_vars

\* the unavailability test fails: go on to the extraction
DEAvailable ==
    /\ script = "DE" /\ de_pc = "check"
    /\ ~Unavailable(soup[1])
    /\ de_pc' = "extract"
    /\ UNCHANGED <<script, driver, data, item, soup, products, skipped_urls,
                   error_log, visited, prod_rows, skip_rows, err_rows, propagating,
                   data_csv, skipped_csv>>
    /\ UNCHANGED lc_vars

\* name, brand, ingredients; products.append({...})
DEExtract ==
    /\ script = "DE" /\ de_pc = "extract"
    /\ products' = Append(products, ProductRecord(data[item], soup[1]))
    /\ prod_rows' = Append(prod_rows, item)
    /\ de_pc' = "for_url"
    /\ UNCHANGED <<script, driver, data, item, soup, skipped_urls, error_log,
                   visited, skip_rows, err_rows, propagating, data_csv, skipped_csv>>
    /\ UNCHANGED lc_vars

\* except Exception: print(f"Error scraping {url}"); traceback.print_exc()
DEExcept ==
    /\ script = "DE" /\ de_pc = "except"
    /\ error_log' = Append(error_log, data[item].URL)
    /\ err_rows' = Append(err_rows, item)
    /\ de_pc' = "for_url"
    /\ UNCHANGED <<script, driver, data, item, soup, products, skipped_urls,
                   visited, prod_rows, skip_rows, propagating, data_csv, skipped_csv>>
    /\ UNCHANGED lc_vars

\* a KeyboardInterrupt or SystemExit in the loop body: not an Exception, so no
\* except clause catches it and it leaves the for loop through the finally block
DEInterrupt ==
    /\ script = "DE" /\ de_pc \in InLoopBody
    /\ \E exc \in Interrupts : propagating' = exc
    /\ de_pc' = "finally"
    /\ UNCHANGED <<script, driver, data, item, soup, products, skipped_urls,
                   error_log, visited, prod_rows, skip_rows, err_rows,
                   data_csv, skipped_csv>>
    /\ UNCHANGED lc_vars

\* where control goes after the finally block
AfterFinally(raised) == IF raised # "none" THEN "crashed" ELSE "to_csv"

\* finally: driver.quit()
DEFinally ==
    /\ script = "DE" /\ de_pc = "finally"
    /\ driver' = "quit"
    /\ de_pc' = AfterFinally(propagating)
    /\ UNCHANGED <<script, data, item, soup, products, skipped_urls, error_log,
                   visited, prod_rows, skip_rows, err_rows, propagating,
                   data_csv, skipped_csv>>
    /\ UNCHANGED lc_vars

\* the two to_csv calls
DEWrite ==
    /\ script = "DE" /\ de_pc = "to_csv"
    /\ data_csv' = Append(data_csv, products)
    /\ skipped_csv' = Append(skipped_csv, skipped_urls)
    /\ de_pc' = "done"
    /\ UNCHANGED <<script, driver, data, item, soup, products, skipped_urls,
                   error_log, visited, prod_rows, skip_rows, err_rows, propagating>>
    /\ UNCHANGED lc_vars

NextDE ==
    \/ DEAcquire \/ DEAcquireFails
    \/ DENextUrl \/ DEUrlsDone
    \/ DEGet \/ DEWait \/ DEScroll \/ DEScrollTolerated \/ DEParse \/ DERaise
    \/ DESkip \/ DEAvailable \/ DEExtract \/ DEExcept
    \/ DEInterrupt \/ DEFinally \/ DEWrite

InitDE ==
    /\ de_pc = "start"
    /\ item = 0
    /\ soup = None
    /\ products = <<>>
    /\ skipped_urls = <<>>
    /\ error_log = <<>>
    /\ visited = <<>>
    /\ prod_rows = <<>>
    /\ skip_rows = <<>>
    /\ err_rows = <<>>
    /\ propagating = "none"
    /\ data_csv = <<>>
    /\ skipped_csv = <<>>

-----------------------------------------------------------------------------
(* One run: one of the two scripts, from its first statement *)

Init ==
    /\ script \in {"LC", "DE"}
    /\ driver = "none"
    /\ InitLC
    /\ InitDE
    /\ data \in IF script = "DE" THEN SeqUpTo(Rows, MaxItems) ELSE {<<>>}

Next == NextLC \/ NextDE

Spec == Init /\ [][Next]_vars

\* the Link Collector alone; a sequential program that can take a step takes one
InitOnlyLC == Init /\ script = "LC"
LiveLC == InitOnlyLC /\ [][NextLC]_vars /\ WF_vars(NextLC)

-----------------------------------------------------------------------------
(* Properties *)

Range(s) == {s[i] : i \in 1..Len(s)}
Last(s) == s[Len(s)]
StrictlyIncreasing(s) == \A i, j \in 1..Len(s) : i < j => s[i] < s[j]
Occurrences(s, x) == Cardinality({i \in 1..Len(s) : s[i] = x})

\* the script has ended, normally or by an exception
LCEnded == script = "LC" /\ lc_pc \in {"done", "crashed"}
DEEnded == script = "DE" /\ de_pc \in {"done", "crashed"}

\* C1: in both scripts, once the browser session is acquired, driver.quit() has
\* been called by the time the script ends, whether the loop completed or an
\* exception left it.
C1_SessionReleasedOnEveryExit ==
    (LCEnded \/ DEEnded) /\ driver # "none" => driver = "quit"

\* The half of C1 that the code keeps: product_scr.py, whose loop is inside
\* try/finally, ends with the session released.
DetailExtractorReleasesSession ==
    DEEnded /\ driver # "none" => driver = "quit"

\* the for loop of product_scr.py was left by running out of rows
DELoopCompleted == de_pc \in {"finally", "to_csv", "done"} /\ propagating = "none"

\* the rows whose iteration is over
DEProcessed ==
    IF de_pc \in {"start", "crashed"} /\ item = 0 THEN {}
    ELSE IF de_pc \in {"for_url", "to_csv", "done"} \/ DELoopCompleted THEN 1..item
    ELSE 1..(item - 1)

\* C2: an Exception raised while a row is processed (a TimeoutException of the
\* wait included) never leaves the for loop: it is logged, the rows after it are
\* navigated to in input order (unless a KeyboardInterrupt ends the run), and
\* every processed row that did not raise is in products or in skipped_urls.
C2_PerItemIsolation ==
    /\ propagating \notin ExceptionClasses
    /\ de_pc = "except" => item \in Range(visited)
    /\ visited = [j \in 1..Len(visited) |-> j]
    /\ \A k \in Range(err_rows) : \A j \in (k + 1)..Len(data) :
         j < item => j \in Range(visited)
    /\ \A k \in Range(err_rows) :
         propagating \notin Interrupts /\ de_pc \in {"finally", "to_csv", "done", "crashed"}
            => (k + 1)..Len(data) \subseteq Range(visited)
    /\ \A j \in DEProcessed :
         j \notin Range(err_rows) => j \in Range(prod_rows) \cup Range(skip_rows)

\* C2 happens: the first row raised, the second was visited and recorded
C2_Witness ==
    /\ script = "DE" /\ de_pc = "done"
    /\ err_rows = <<1>>
    /\ visited = <<1, 2>>
    /\ prod_rows = <<2>>

\* C3: when the parsed page holds the unavailability marker, the row goes to
\* skipped_urls and nothing is appended to products, whatever elements the page
\* has (only a KeyboardInterrupt, which ends the run, can come between).
C3_UnavailablePrecedence ==
    [][/\ (de_pc = "check" /\ soup[1].marker) =>
            /\ products' = products
            /\ \/ /\ de_pc' = "for_url"
                  /\ skipped_urls' = Append(skipped_urls,
                         [Category |-> data[item].category, URL |-> data[item].URL])
               \/ /\ de_pc' = "finally"
                  /\ propagating' \in Interrupts
                  /\ skipped_urls' = skipped_urls
       /\ products' # products => de_pc = "extract" /\ ~soup[1].marker
      ]_vars

\* C3 happens: a page with the marker and with all three elements was skipped
C3_Witness ==
    /\ script = "DE" /\ de_pc = "for_url"
    /\ skip_rows # <<>> /\ Last(skip_rows) = item
    /\ soup # None /\ soup[1].marker
    /\ soup[1].name_tag # None /\ soup[1].brand_tag # None
    /\ soup[1].ingredient_div # None
    /\ item \notin Range(prod_rows)

\* C4: final_df never holds the same (category, URL) row twice, and neither
\* does the file written from it.
C4_NoDuplicateRows ==
    /\ \A i, j \in 1..Len(final_df) : i # j => final_df[i] # final_df[j]
    /\ \A i \in 1..Len(final_df) : final_df[i].URL \in URLS
    /\ \A w \in 1..Len(urls_csv) :
         \A i, j \in 1..Len(urls_csv[w]) : i # j => urls_csv[w][i] # urls_csv[w][j]

\* C4 happens: an href came up again, on a later page, and the run wrote its file
C4_Witness ==
    /\ script = "LC" /\ lc_pc = "done"
    /\ dup_skipped
    /\ Len(final_df) >= 2
    /\ \E i \in 1..Len(requests) : requests[i][2] >= 2

\* C5: the pages of a category are requested in the order 1, 2, ..., never
\* beyond max_pages; a page with zero blocks ends the category normally, and
\* the next request, if any, is page 1 of the next category.
C5_PaginationStops ==
    [][/\ requests' # requests =>
            /\ requests' = Append(requests, <<cat, page>>)
            /\ 1 <= page /\ page <= max_pages
            /\ \/ page = 1 /\ (requests = <<>> \/ Last(requests)[1] = cat - 1)
               \/ page > 1 /\ Last(requests) = <<cat, page - 1>> /\ current_count > 0
       /\ (lc_pc = "while" /\ lc_pc' \notin {"while", "compare", "crashed"}
             /\ current_count = 0) =>
            /\ lc_pc' = "for_category"
            /\ UNCHANGED <<requests, final_df, cat, page>>
       /\ (lc_pc = "for_category" /\ lc_pc' = "for_page") => cat' = cat + 1 /\ page' = 1
      ]_vars

\* C5 happens: category 1 stopped after page 2, below the cap, and category 2
\* started at page 1
C5_Witness ==
    /\ script = "LC"
    /\ Len(requests) >= 3
    /\ requests[2] = <<1, 2>>
    /\ requests[3] = <<2, 1>>
    /\ max_pages > 2

\* C6: the scroll loop of a page is left (for the extraction, or for the
\* zero-block stop) exactly when 7 reads in a row returned the count of the read
\* before them, not earlier and not later; a read with a different count sets
\* scroll_attempts to 0.
C6_ScrollStability ==
    [][/\ (lc_pc = "while" /\ lc_pc' \in {"for_block", "for_category"}) => equal_run = 7
       /\ (lc_pc = "while" /\ equal_run = 7) => lc_pc' # "compare"
       /\ (lc_pc = "while" /\ equal_run < 7) => lc_pc' \in {"compare", "crashed"}
       /\ (lc_pc = "compare" /\ lc_pc' = "while" /\ current_count # previous_count)
             => scroll_attempts' = 0
       /\ lc_pc' = "for_block" => blk' = 1 \/ lc_pc = "for_block"
      ]_vars

\* C6 happens: the extraction starts after 7 equal reads
C6_Witness ==
    /\ script = "LC" /\ lc_pc = "for_block" /\ blk = 1
    /\ equal_run = 7
    /\ current_count > 0

\* C7: the file is written at most once, and only when the loop over all the
\* categories is over and the session is closed; a run that an exception ended
\* has written nothing, whatever final_df holds.
C7_SingleFinalWrite ==
    /\ Len(urls_csv) <= 1
    /\ urls_csv # <<>> =>
         /\ lc_pc = "done"
         /\ urls_csv[1] = final_df
         /\ cat = Len(categories)
         /\ \A c \in 1..Len(categories) : \E i \in 1..Len(requests) : requests[i][1] = c
    /\ lc_pc = "done" => Len(urls_csv) = 1
    /\ lc_pc = "crashed" => urls_csv = <<>>

\* C7 happens: an exception in the second category ended the run with links
\* collected and no file
C7_Witness ==
    /\ script = "LC" /\ lc_pc = "crashed"
    /\ cat = 2
    /\ final_df # <<>>
    /\ urls_csv = <<>>

\* the row just processed was parsed and was neither skipped nor raised
DEJustRecorded ==
    /\ script = "DE" /\ de_pc = "for_url" /\ item >= 1
    /\ item \notin Range(err_rows)
    /\ soup # None /\ ~soup[1].marker

\* some nested div of the container has text that is not blank
HasIngredientText(div) ==
    div # None /\ \E i \in 1..Len(div[1]) : \E j \in 1..Len(div[1][i]) : div[1][i][j] # " "

\* what C8 says of every field but the ingredients, and of the record itself
C8_RecordedOnce ==
    /\ Occurrences(prod_rows, item) = 1
    /\ Last(prod_rows) = item
    /\ Len(products) = Len(prod_rows)
    /\ item \notin Range(skip_rows)
    /\ Last(products).URL = data[item].URL
    /\ Last(products).Category = data[item].category
    /\ Last(products).ProductName # None <=> soup[1].name_tag # None
    /\ Last(products).Brand # None <=> soup[1].brand_tag # None

\* C8 as stated: a page without the marker that raises nothing gives exactly one
\* record in products, and each of name, brand and ingredients is present iff
\* its element was found.
C8_FieldsPresentIffFound ==
    DEJustRecorded =>
        /\ C8_RecordedOnce
        /\ Last(products).Ingredients # None <=> soup[1].ingredient_div # None

\* C8 amended: as above for the record, the name and the brand; the ingredients
\* are present iff the container was found and a nested div of it has text that
\* is not blank.
C8_FieldsPresentAmended ==
    DEJustRecorded =>
        /\ C8_RecordedOnce
        /\ Last(products).Ingredients # None <=> HasIngredientText(soup[1].ingredient_div)

\* C8 happens: a name and no brand, in products
C8_Witness ==
    /\ DEJustRecorded
    /\ soup[1].name_tag # None /\ soup[1].brand_tag = None
    /\ Last(products).ProductName # None /\ Last(products).Brand = None
    /\ Last(prod_rows) = item

\* C9: every processed row has exactly one outcome: products, skipped_urls and
\* the errors are disjoint, hold a row at most once and in input order, and a
\* row that raised is in neither collection; when the loop is over the three
\* sizes add up to the number of rows.
C9_OutcomePartition ==
    /\ StrictlyIncreasing(prod_rows)
    /\ StrictlyIncreasing(skip_rows)
    /\ StrictlyIncreasing(err_rows)
    /\ Range(prod_rows) \cap Range(skip_rows) = {}
    /\ Range(prod_rows) \cap Range(err_rows) = {}
    /\ Range(skip_rows) \cap Range(err_rows) = {}
    /\ Len(products) = Len(prod_rows)
    /\ Len(skipped_urls) = Len(skip_rows)
    /\ Len(error_log) = Len(err_rows)
    /\ \A j \in 1..Len(products) :
         /\ products[j].URL = data[prod_rows[j]].URL
         /\ products[j].Category = data[prod_rows[j]].category
    /\ \A j \in 1..Len(skipped_urls) :
         /\ skipped_urls[j].URL = data[skip_rows[j]].URL
         /\ skipped_urls[j].Category = data[skip_rows[j]].category
    /\ \A j \in 1..Len(error_log) : error_log[j] = data[err_rows[j]].URL
    /\ DELoopCompleted =>
         /\ Range(prod_rows) \cup Range(skip_rows) \cup Range(err_rows) = 1..Len(data)
         /\ Len(products) + Len(skipped_urls) + Len(error_log) = Len(data)
    /\ \A w \in 1..Len(data_csv) : data_csv[w] = products
    /\ \A w \in 1..Len(skipped_csv) : skipped_csv[w] = skipped_urls

\* C9 happens: one row of each of two outcomes, and the run is over
C9_Witness ==
    /\ script = "DE" /\ de_pc = "done"
    /\ Len(data) = 2
    /\ Len(products) + Len(skipped_urls) + Len(error_log) = 2
    /\ Len(error_log) = 1
    /\ Len(skipped_urls) = 1

\* a read returned a count that differs from the count of the read before
CountChanged == lc_pc = "compare" /\ current_count # previous_count

\* C10: if the count changes only finitely often, the Link Collector ends (so
\* every scroll loop does), and no category loads more than max_pages pages; the
\* only way to run forever is a count that keeps changing.
C10_TerminatesWhenStable ==
    /\ [](page <= max_pages + 1 /\ Len(requests) <= Len(categories) * max_pages)
    /\ ([]<>CountChanged) \/ <>LCEnded

\* C10 happens: a count that changed after 6 equal reads kept the loop going
C10_Witness ==
    /\ script = "LC" /\ lc_pc = "compare"
    /\ current_count # previous_count
    /\ scroll_attempts = 6

\* the scroll loop has no bound of its own: the Link Collector need not end
LinkCollectorAlwaysEnds == <>LCEnded

====
